---- MODULE Spec2Model ----
(***************************************************************************)
(* A model of js/scripts.js: the behaviour layer of a static portfolio     *)
(* page (class PortfolioApp, the PortfolioUtils helpers and the global     *)
(* listeners registered at the end of the script).                         *)
(*                                                                         *)
(* The state is the part of the DOM, of localStorage and of the browser's  *)
(* timer table that the script reads or writes.  Every listener is one     *)
(* action; a click is one action that runs the listener on the clicked     *)
(* element and then the document-level click listener the event bubbles    *)
(* to.  Time is a countdown on every pending timer: a timer never fires    *)
(* before its delay has elapsed and may fire late.                         *)
(*                                                                         *)
(* The page's markup is not part of the script.  The model fixes a small   *)
(* page (Anchors, SectionIds, FadeIds, Focusable) and draws the presence   *)
(* and placement of the optional nodes from Markups.  focus follows the    *)
(* script's own focus() calls only, not the browser's native focus moves.  *)
(* initScrollEffects writes animation properties of elements no other part *)
(* of the script reads; it has no action here.                             *)
(***************************************************************************)
EXTENDS Integers, Sequences, FiniteSets

\* ------------------------------------------------------------------ bounds
\* how many toggleTheme calls a run counts
MaxToggles == 3
\* how many calls of the debounced resize handler one burst counts
MaxBurst == 3
\* milliseconds one Tick advances the clock by
TickMs == 50
\* skip links inserted in one run at most
MaxSkips == 2

\* ------------------------------------------------------- program constants
\* window.innerWidth <= 768 ? 80 : 0 ; window.innerWidth > 768
Breakpoint == 768
HeaderHeight == 80
\* PortfolioUtils.debounce(..., 250)
ResizeWait == 250
\* index * 100
StaggerMs == 100
\* setTimeout(..., 1000) of announceThemeChange
AnnounceMs == 1000

\* the value of an absent attribute, storage key or variable
Null == "null"

\* ------------------------------------------------------------- the markup
\* which optional nodes the page has, whether the two buttons lie inside
\* the .navbar element (navbar.contains(e.target) for a click on them), and
\* whether the about section can take the focus (it has a tabindex)
Markups ==
    { [themeToggle |-> TRUE,  mobileToggle |-> TRUE,  navbar |-> TRUE,
       themeInNav |-> TRUE,  mobileInNav |-> TRUE,  aboutFocusable |-> TRUE],
      [themeToggle |-> TRUE,  mobileToggle |-> TRUE,  navbar |-> TRUE,
       themeInNav |-> TRUE,  mobileInNav |-> TRUE,  aboutFocusable |-> FALSE],
      [themeToggle |-> TRUE,  mobileToggle |-> TRUE,  navbar |-> TRUE,
       themeInNav |-> FALSE, mobileInNav |-> TRUE,  aboutFocusable |-> TRUE],
      [themeToggle |-> FALSE, mobileToggle |-> TRUE,  navbar |-> TRUE,
       themeInNav |-> FALSE, mobileInNav |-> TRUE,  aboutFocusable |-> TRUE],
      [themeToggle |-> TRUE,  mobileToggle |-> FALSE, navbar |-> TRUE,
       themeInNav |-> TRUE,  mobileInNav |-> FALSE, aboutFocusable |-> TRUE],
      [themeToggle |-> TRUE,  mobileToggle |-> TRUE,  navbar |-> FALSE,
       themeInNav |-> FALSE, mobileInNav |-> FALSE, aboutFocusable |-> TRUE] }

\* the a[href^="#"] elements in document order: href, frag (the href without
\* its '#'), whether the anchor has the class nav-link, whether it lies inside
\* .navbar
Anchors ==
    << [href |-> "#page-top", frag |-> "page-top", nav |-> FALSE, inNav |-> TRUE],
       [href |-> "#about",    frag |-> "about",    nav |-> TRUE,  inNav |-> TRUE],
       [href |-> "#projects", frag |-> "projects", nav |-> TRUE,  inNav |-> TRUE],
       [href |-> "#contact",  frag |-> "contact",  nav |-> TRUE,  inNav |-> TRUE],
       [href |-> "#projects", frag |-> "projects", nav |-> FALSE, inNav |-> FALSE],
       [href |-> "#resume",   frag |-> "resume",   nav |-> FALSE, inNav |-> FALSE],
       [href |-> "#",         frag |-> "",         nav |-> FALSE, inNav |-> FALSE] >>

AnchorIds == DOMAIN Anchors

\* the elements with class section: each has an id, and a nav-link anchor
\* whose href is that id, which is the first anchor with that href
SectionIds == {"about", "projects", "contact"}

\* the ids document.querySelector('#id') finds
ElementIds == SectionIds

\* the elements the fade observer watches
FadeIds == {"heroText", "projectCard"}

\* values window.innerWidth takes, values an element's offsetTop takes
Widths == {767, 768, 769}
Offsets == {40, 600}

\* values the limit of a throttled function takes, in ms
Limits == {50, 100, 150}

VARIABLES
    phase,          \* "loading" until new PortfolioApp() has run, then "ready"
    markup,         \* the page's markup, one of Markups
    storage,        \* localStorage 'theme'
    dataTheme,      \* document.body data-theme
    themeAtInit,    \* the theme initTheme applied (history)
    toggles,        \* number of toggleTheme calls so far (history)
    navOpen,        \* navbar.classList.contains('open')
    ariaExpanded,   \* the mobile toggle's aria-expanded
    ariaHidden,     \* the navbar's aria-hidden
    focus,          \* document.activeElement, as far as the script moves it
    innerWidth,     \* window.innerWidth
    active,         \* the anchors (indices of Anchors) with class 'active'
    style,          \* style.opacity and style.transform of each fade element
    fadeTimers,     \* pending timers of the fade observer: [el, remaining]
    timeout,        \* debounce's closure variable: id of the last timer set
    resizeTimers,   \* pending timers of the debounced resize handler
    burst,          \* history of the debounced resize handler: calls since
                    \* func last ran, runs of func since the last call (and
                    \* the arguments of the last of them), ms since the last
                    \* call (up to the wait)
    announced,      \* the announcement nodes in document.body: [id, age],
                    \* age being the ms since appendChild, up to AnnounceMs
                    \* (history)
    announceTimers, \* pending timers of announceThemeChange: [node, remaining]
    sinceToggle,    \* ms since the last toggleTheme, up to AnnounceMs (history)
    limit,          \* the limit of the function made by throttle, 0 before
    inThrottle,     \* the inThrottle of that function
    throttleTimers, \* its pending timers: [remaining]
    thr,            \* its calls (history): first is no call yet, since the
                    \* ms since func last ran (up to limit), args the last
                    \* call's arguments, accepted whether that call ran func,
                    \* invoked the arguments func last ran with, fires how
                    \* often func ran (up to 2)
    skipLinks,      \* the skip links in document.body, numbered as inserted
    skipCount,      \* the number of skip links inserted so far
    ev              \* what the last dispatched event did (history)

vars == << phase, markup, storage, dataTheme, themeAtInit, toggles, navOpen, ariaExpanded,
           ariaHidden, focus, innerWidth, active, style, fadeTimers, timeout,
           resizeTimers, burst, announced, announceTimers, sinceToggle, limit,
           inThrottle, throttleTimers, thr, skipLinks, skipCount, ev >>

themeVars == << storage, dataTheme, themeAtInit, toggles >>
menuVars == << navOpen, ariaExpanded, ariaHidden, focus >>
fadeVars == << style, fadeTimers >>
debounceVars == << timeout, resizeTimers, burst >>
\* the sections on which focus() moves the focus (tabindex is set)
Focusable == IF markup.aboutFocusable THEN {"about"} ELSE {}

annVars == << announced, announceTimers, sinceToggle >>
thrVars == << limit, inThrottle, throttleTimers, thr >>
skipVars == << skipLinks, skipCount >>

\* ---------------------------------------------------------------- helpers
Max(a, b) == IF a >= b THEN a ELSE b
Min(a, b) == IF a <= b THEN a ELSE b

\* String(b) for a boolean b
BoolStr(b) == IF b THEN "true" ELSE "false"

\* the log of an event that ran no scroll-router code and was no observer
\* callback.  kind names the event; anchor is the clicked anchor (0: none);
\* prevented is e.defaultPrevented; scrollTo lists the window.scrollTo calls'
\* tops; offsetTop is the target's offsetTop as read; routerOpen is the open
\* class as the anchor's own listener left it; entries is the observer
\* batch; threw says that a listener or callback of the event ended in an
\* uncaught exception
NoEv(kind) ==
    [kind |-> kind, anchor |-> 0, prevented |-> FALSE, scrollTo |-> << >>,
     offsetTop |-> 0, routerOpen |-> FALSE, entries |-> << >>, threw |-> FALSE]

\* the inline style of a fade element: as the markup leaves it, as
\* initIntersectionObserver sets it, as the timer callback sets it
Unstyled == [opacity |-> "", transform |-> ""]
HiddenStyle == [opacity |-> "0", transform |-> "translateY(20px)"]

\* ------------------------------------------------------------------ theme
\* SavedTheme with the other default
SavedThemeLightDefault(stored) == IF stored = Null THEN "light" ELSE stored

\* localStorage.getItem('theme') || 'dark'
SavedTheme(stored) == IF stored = Null THEN "dark" ELSE stored

\* NewTheme comparing with the wrong theme
NewThemeSwapped(currentTheme) == IF currentTheme = "light" THEN "light" ELSE "dark"

\* currentTheme === 'dark' ? 'light' : 'dark'
NewTheme(currentTheme) == IF currentTheme = "dark" THEN "light" ELSE "dark"

\* ToggleTheme persisting the theme it read instead of the new one
ToggleThemeStoresOld(currentTheme) ==
    [attribute |-> NewTheme(currentTheme), stored |-> currentTheme]

\* toggleTheme(): the data-theme it sets and the value it persists
ToggleTheme(currentTheme) ==
    [attribute |-> NewTheme(currentTheme), stored |-> NewTheme(currentTheme)]

\* ------------------------------------------------------------------- menu
\* the menu as the handlers see it; threw is set by a handler that ends in
\* an uncaught exception
Menu ==
    [open |-> navOpen, expanded |-> ariaExpanded, hidden |-> ariaHidden,
     focus |-> focus, threw |-> FALSE]

\* the log of an event of that kind whose listeners left the menu m
MenuEv(kind, m) == [NoEv(kind) EXCEPT !.threw = m.threw]

SetMenu(m) ==
    /\ navOpen' = m.open
    /\ ariaExpanded' = m.expanded
    /\ ariaHidden' = m.hidden
    /\ focus' = m.focus

\* updateAriaAttributes(button, menu)
UpdateAriaAttributes(m) ==
    [m EXCEPT !.expanded = BoolStr(m.open), !.hidden = BoolStr(~m.open)]

\* the click listener of .mobile-menu-toggle, bound when both nodes exist
ToggleMenu(m) ==
    IF markup.mobileToggle /\ markup.navbar
    THEN UpdateAriaAttributes([m EXCEPT !.open = ~m.open])
    ELSE m

\* OutsideClick with navbar.contains for navbar?.contains: a TypeError when
\* there is no navbar
OutsideClickNoOptionalChaining(m, inNav) ==
    IF ~markup.navbar THEN [m EXCEPT !.threw = TRUE]
    ELSE IF ~inNav /\ m.open
    THEN [m EXCEPT !.open = FALSE,
                   !.expanded = IF markup.mobileToggle THEN "false" ELSE @]
    ELSE m

\* the document click listener: inNav is navbar.contains(e.target)
OutsideClick(m, inNav) ==
    IF markup.navbar /\ ~inNav /\ m.open
    THEN [m EXCEPT !.open = FALSE,
                   !.expanded = IF markup.mobileToggle THEN "false" ELSE @]
    ELSE m

\* EscapeKey without the test for the open class
EscapeKeyUnguarded(m) ==
    IF markup.navbar
    THEN [m EXCEPT !.open = FALSE,
                   !.expanded = IF markup.mobileToggle THEN "false" ELSE @,
                   !.focus = IF markup.mobileToggle THEN "mobileToggle" ELSE @]
    ELSE m

\* EscapeKey without mobileToggle.focus()
EscapeKeyNoFocus(m) ==
    IF markup.navbar /\ m.open
    THEN [m EXCEPT !.open = FALSE,
                   !.expanded = IF markup.mobileToggle THEN "false" ELSE @]
    ELSE m

\* the document keydown listener of bindEvents, for e.key === 'Escape'
EscapeKey(m) ==
    IF markup.navbar /\ m.open
    THEN [m EXCEPT !.open = FALSE,
                   !.expanded = IF markup.mobileToggle THEN "false" ELSE @,
                   !.focus = IF markup.mobileToggle THEN "mobileToggle" ELSE @]
    ELSE m

\* ResizeClose with >= for >
ResizeCloseAtBreakpoint(m, w) ==
    IF w >= Breakpoint /\ markup.navbar /\ m.open
    THEN [m EXCEPT !.open = FALSE]
    ELSE m

\* the function the resize listener debounces, run at width w
ResizeClose(m, w) ==
    IF w > Breakpoint /\ markup.navbar /\ m.open
    THEN [m EXCEPT !.open = FALSE]
    ELSE m

\* ---------------------------------------------------------- scroll router
\* QuerySelector never returning null
QuerySelectorAlways(frag) == frag

\* document.querySelector('#' + frag): the element, or Null
QuerySelector(frag) == IF frag \in ElementIds THEN frag ELSE Null

\* HeaderOffset with < for <=
HeaderOffsetStrict(w) == IF w < Breakpoint THEN HeaderHeight ELSE 0

\* window.innerWidth <= 768 ? 80 : 0
HeaderOffset(w) == IF w <= Breakpoint THEN HeaderHeight ELSE 0

\* RouterClose leaving the menu as it is
RouterCloseNever(m) == m

\* "Close mobile menu if open" of the anchor listener
RouterClose(m) ==
    IF markup.navbar /\ m.open THEN [m EXCEPT !.open = FALSE] ELSE m

\* targetElement.focus()
FocusTarget(m, target) ==
    IF target \in Focusable THEN [m EXCEPT !.focus = target] ELSE m

\* the click listener of anchor a, with the target's offsetTop being off and
\* window.innerWidth being w: the menu it leaves and what it did to the event
LinkClick(m, a, off, w) ==
    LET href == Anchors[a].href
        target == QuerySelector(Anchors[a].frag)
    IN  IF href = "#" \/ href = "#page-top"
        THEN [menu |-> m, prevented |-> TRUE, scrollTo |-> << 0 >>]
        ELSE IF target # Null
        THEN [menu |-> FocusTarget(RouterClose(m), target),
              prevented |-> TRUE,
              scrollTo |-> << off - HeaderOffset(w) >>]
        ELSE [menu |-> m, prevented |-> FALSE, scrollTo |-> << >>]

\* -------------------------------------------------------- section watcher
\* the anchors with class nav-link
NavLinks == { a \in AnchorIds : Anchors[a].nav }

\* ClearLinks clearing nothing
ClearLinksNone(act) == act

\* navLinks.forEach(link => link.classList.remove('active'))
ClearLinks(act) == act \ NavLinks

\* document.querySelector(`a[href="#${id}"]`): the first anchor in document
\* order with that href, 0 when there is none
ActiveLink(id) ==
    LET hits == { a \in AnchorIds : Anchors[a].frag = id }
    IN  IF hits = {} THEN 0
        ELSE CHOOSE a \in hits : \A b \in hits : a <= b

\* NavEntry marking a link only while no nav link is active: the first
\* intersecting entry of a batch wins
NavEntryFirstWins(act, entry) ==
    IF entry.isIntersecting /\ act \cap NavLinks = {}
    THEN LET link == ActiveLink(entry.target)
         IN  IF link # 0 THEN act \cup {link} ELSE act
    ELSE act

\* the callback's body for one entry
NavEntry(act, entry) ==
    IF entry.isIntersecting
    THEN LET link == ActiveLink(entry.target)
         IN  IF link # 0 THEN ClearLinks(act) \cup {link} ELSE ClearLinks(act)
    ELSE act

\* entries.forEach(...) of the section observer's callback
RECURSIVE NavCallback(_, _)
NavCallback(act, entries) ==
    IF entries = << >> THEN act
    ELSE NavCallback(NavEntry(act, Head(entries)), Tail(entries))

\* the batches an observer of the elements ids delivers: every ordering of
\* every non-empty subset, each entry intersecting or not
Batches(ids) ==
    LET E == [target : ids, isIntersecting : BOOLEAN]
        seqs == UNION { [1..n -> E] : n \in 1..Cardinality(ids) }
    IN  { b \in seqs : \A i, j \in DOMAIN b : i # j => b[i].target # b[j].target }

\* --------------------------------------------------------- entrance fades
\* the timer callback's two assignments
RevealedStyle == [opacity |-> "1", transform |-> "translateY(0)"]

\* FadeFire flipping a revealed element back to hidden
FadeFireFlip(st, el) ==
    [st EXCEPT ![el] = IF @ = RevealedStyle THEN HiddenStyle ELSE RevealedStyle]

\* the timer callback on the styles st, for the element el
FadeFire(st, el) == [st EXCEPT ![el] = RevealedStyle]

\* the fade observer's callback: the timers it sets, entry i (from 1) with
\* forEach index i - 1
FadeCallback(entries) ==
    { [el |-> entries[i].target, remaining |-> (i - 1) * StaggerMs] :
        i \in { j \in DOMAIN entries : entries[j].isIntersecting } }

\* -------------------------------------------------------------- debounce
\* clearTimeout(id) on the timer table ts
ClearTimeout(ts, id) == { t \in ts : t.id # id }

\* the id setTimeout returns: one no pending timer has
FreshId(ts) ==
    CHOOSE n \in 1..(Cardinality(ts) + 1) : \A t \in ts : t.id # n

\* DebounceCall without its clearTimeout
DebounceCallNoClear(ts, tmo, args, wait) ==
    [timers |-> ts \cup {[id |-> FreshId(ts), remaining |-> wait, args |-> args]},
     timeout |-> FreshId(ts)]

\* executedFunction(...args): the timer table and the closure's timeout after
\* clearTimeout(timeout); timeout = setTimeout(later, wait)
DebounceCall(ts, tmo, args, wait) ==
    LET cleared == ClearTimeout(ts, tmo)
        id == FreshId(cleared)
    IN  [timers |-> cleared \cup {[id |-> id, remaining |-> wait, args |-> args]},
         timeout |-> id]

\* later(), run by timer t: clearTimeout(timeout) on the rest of the table
\* (func(...args) is the caller's part)
DebounceLater(ts, tmo, t) == ClearTimeout(ts \ {t}, tmo)

\* every pending timer after ms milliseconds
Elapse(ts, ms) == { [t EXCEPT !.remaining = Max(0, @ - ms)] : t \in ts }

\* ---------------------------------------------------------- announcements
\* document.createElement('div'): a node that is not in the document
FreshNode(nodes) ==
    CHOOSE n \in 1..(Cardinality(nodes) + 1) : \A x \in nodes : x.id # n

\* parent.removeChild(child) on the children nodes: NotFoundError when the
\* node is not a child
RemoveChild(nodes, id) ==
    [nodes |-> { x \in nodes : x.id # id },
     threw |-> ~(\E x \in nodes : x.id = id)]

\* AnnounceThemeChange without the setTimeout that removes the node
AnnounceNoRemoval(nodes, timers) ==
    [nodes |-> nodes \cup {[id |-> FreshNode(nodes), age |-> 0]},
     timers |-> timers]

\* announceThemeChange(theme): appendChild(announcement), and the timer
\* that removes this announcement
AnnounceThemeChange(nodes, timers) ==
    LET n == FreshNode(nodes)
    IN  [nodes |-> nodes \cup {[id |-> n, age |-> 0]},
         timers |-> timers \cup {[node |-> n, remaining |-> AnnounceMs]}]

\* the announcement nodes after ms milliseconds
Age(nodes, ms) == { [x EXCEPT !.age = Min(AnnounceMs, @ + ms)] : x \in nodes }

\* --------------------------------------------------------------- skip link
\* the skip link that has the focus when document.activeElement is a skip
\* link: a skip link is focused when it is inserted and at no other time
FocusedLink == skipCount

\* the blur listener of skip link l
SkipBlur(links, l) ==
    IF \E x \in links : x.id = l THEN RemoveChild(links, l).nodes ELSE links

\* the skip links after the focus went from element before to element
\* after: a skip link that lost the focus got a blur event
AfterFocus(links, before, after) ==
    IF before = "skipLink" /\ after # "skipLink"
    THEN SkipBlur(links, FocusedLink)
    ELSE links

\* the keydown listener of the skip link, for e.key === 'Tab'
SkipKeydown(m, links, count, shift) ==
    IF ~shift /\ m.focus = "body"
    THEN [menu |-> [m EXCEPT !.focus = "skipLink"],
          links |-> links \cup {[id |-> count + 1]},
          count |-> count + 1]
    ELSE [menu |-> m, links |-> links, count |-> count]

\* the click listener of skip link l.  blurOnRemove says whether the browser
\* sends blur to a focused element that is being removed, before it is
\* detached: the blur listener then removes the link first
SkipClickHandler(m, links, l, blurOnRemove) ==
    IF QuerySelector("about") = Null
    THEN [menu |-> [m EXCEPT !.threw = TRUE], links |-> links]
    ELSE LET m1 == FocusTarget(m, "about")
             links1 == AfterFocus(links, m.focus, m1.focus)
             r == RemoveChild(links1, l)
             focused == m1.focus = "skipLink" /\ l = FocusedLink /\ ~r.threw
         IN  [menu |-> [m1 EXCEPT !.focus = IF focused THEN "body" ELSE @,
                                  !.threw = r.threw \/ (focused /\ blurOnRemove)],
              links |-> r.nodes]

\* ---------------------------------------------------------------- throttle
\* Throttled without inThrottle = true
ThrottledNoFlag(flag, timers, lim) ==
    IF ~flag
    THEN [invoke |-> TRUE, flag |-> flag,
          timers |-> timers \cup {[remaining |-> lim]}]
    ELSE [invoke |-> FALSE, flag |-> flag, timers |-> timers]

\* one call of the function throttle(func, lim) returns, inThrottle being
\* flag: whether func is applied, the new inThrottle and the timers
Throttled(flag, timers, lim) ==
    IF ~flag
    THEN [invoke |-> TRUE, flag |-> TRUE,
          timers |-> timers \cup {[remaining |-> lim]}]
    ELSE [invoke |-> FALSE, flag |-> flag, timers |-> timers]

\* ------------------------------------------------------------------- Init
\* the page as parsed, before new PortfolioApp(): the menu is closed and the
\* markup's ARIA attributes say so
Init ==
    /\ phase = "loading"
    /\ markup \in Markups
    /\ storage \in {Null, "light", "dark"}
    /\ dataTheme = Null
    /\ themeAtInit = Null
    /\ toggles = 0
    /\ navOpen = FALSE
    /\ ariaExpanded = IF markup.mobileToggle THEN "false" ELSE Null
    /\ ariaHidden = IF markup.navbar THEN "true" ELSE Null
    /\ focus = "body"
    /\ innerWidth \in Widths
    /\ active = {}
    /\ style = [e \in FadeIds |-> Unstyled]
    /\ fadeTimers = {}
    /\ timeout = 0
    /\ resizeTimers = {}
    /\ burst = [calls |-> 0, fires |-> 0, since |-> ResizeWait, invoked |-> 0]
    /\ announced = {}
    /\ announceTimers = {}
    /\ sinceToggle = AnnounceMs
    /\ limit = 0
    /\ inThrottle = FALSE
    /\ throttleTimers = {}
    /\ thr = [first |-> TRUE, since |-> 0, args |-> 0, accepted |-> FALSE,
              invoked |-> 0, fires |-> 0]
    /\ skipLinks = {}
    /\ skipCount = 0
    /\ ev = NoEv("none")

\* a first visit: nothing is saved yet
InitFresh == Init /\ storage = Null

\* ---------------------------------------------------------------- actions
\* new PortfolioApp(): init() binds the listeners, initTheme() applies the
\* saved theme, initIntersectionObserver() hides the fade elements
Load ==
    /\ phase = "loading"
    /\ phase' = "ready"
    /\ dataTheme' = SavedTheme(storage)
    /\ themeAtInit' = SavedTheme(storage)
    /\ style' = [e \in FadeIds |-> HiddenStyle]
    /\ ev' = NoEv("load")
    /\ UNCHANGED << markup, storage, toggles, menuVars, innerWidth, active,
                    fadeTimers, debounceVars, annVars, thrVars, skipVars >>

\* a click on #theme-toggle: toggleTheme(), then the document click listener
ClickThemeToggle ==
    /\ phase = "ready"
    /\ markup.themeToggle
    /\ toggles < MaxToggles
    /\ dataTheme' = ToggleTheme(dataTheme).attribute
    /\ storage' = ToggleTheme(dataTheme).stored
    /\ toggles' = toggles + 1
    /\ UNCHANGED themeAtInit
    /\ LET a == AnnounceThemeChange(announced, announceTimers)
       IN  announced' = a.nodes /\ announceTimers' = a.timers
    /\ sinceToggle' = 0
    /\ LET m == OutsideClick(Menu, markup.themeInNav)
       IN  SetMenu(m) /\ ev' = MenuEv("themeClick", m)
    /\ UNCHANGED << phase, markup, innerWidth, active, fadeVars, debounceVars,
                    thrVars, skipVars >>

\* a click on .mobile-menu-toggle: its listener, then the document's
ClickMobileToggle ==
    /\ phase = "ready"
    /\ markup.mobileToggle
    /\ LET m == OutsideClick(ToggleMenu(Menu), markup.mobileInNav)
       IN  SetMenu(m) /\ ev' = MenuEv("toggleClick", m)
    /\ UNCHANGED << phase, markup, themeVars, innerWidth, active, fadeVars,
                    debounceVars, annVars, thrVars, skipVars >>

\* a click on anchor a: its listener, then the document's
ClickAnchor(a) ==
    /\ phase = "ready"
    /\ \E off \in IF QuerySelector(Anchors[a].frag) = Null THEN {0} ELSE Offsets :
          LET r == LinkClick(Menu, a, off, innerWidth)
              m == OutsideClick(r.menu, Anchors[a].inNav)
          IN  /\ SetMenu(m)
              /\ ev' = [kind |-> "anchorClick", anchor |-> a,
                        prevented |-> r.prevented, scrollTo |-> r.scrollTo,
                        offsetTop |-> off, routerOpen |-> r.menu.open,
                        entries |-> << >>, threw |-> m.threw]
              /\ skipLinks' = AfterFocus(skipLinks, focus, m.focus)
    /\ UNCHANGED << phase, markup, themeVars, innerWidth, active, fadeVars,
                    debounceVars, annVars, thrVars, skipCount >>

\* a click on anything else, inside the navbar or outside of it
ClickElsewhere(inNav) ==
    /\ phase = "ready"
    /\ inNav => markup.navbar
    /\ LET m == OutsideClick(Menu, inNav)
       IN  /\ SetMenu(m)
           /\ ev' = MenuEv(IF inNav THEN "insideClick" ELSE "outsideClick", m)
    /\ UNCHANGED << phase, markup, themeVars, innerWidth, active, fadeVars,
                    debounceVars, annVars, thrVars, skipVars >>

\* keydown with e.key === 'Escape'
KeyEscape ==
    /\ phase = "ready"
    /\ LET m == EscapeKey(Menu)
       IN  /\ SetMenu(m)
           /\ ev' = MenuEv("escape", m)
           /\ skipLinks' = AfterFocus(skipLinks, focus, m.focus)
    /\ UNCHANGED << phase, markup, themeVars, innerWidth, active, fadeVars,
                    debounceVars, annVars, thrVars, skipCount >>

\* a resize event leaving the window w wide: the debounced handler is called
\* with the event (args numbers the calls since func last ran)
Resize(w) ==
    /\ phase = "ready"
    /\ burst.calls < MaxBurst
    /\ innerWidth' = w
    /\ LET args == burst.calls + 1
           d == DebounceCall(resizeTimers, timeout, args, ResizeWait)
       IN  /\ resizeTimers' = d.timers
           /\ timeout' = d.timeout
           /\ burst' = [calls |-> args, fires |-> 0, since |-> 0, invoked |-> 0]
    /\ ev' = NoEv("resize")
    /\ UNCHANGED << phase, markup, themeVars, menuVars, active, fadeVars,
                    annVars, thrVars, skipVars >>

\* a due timer of the debounced handler runs later(): func closes the menu
\* on a desktop width
FireResize(t) ==
    /\ t \in resizeTimers
    /\ t.remaining = 0
    /\ resizeTimers' = DebounceLater(resizeTimers, timeout, t)
    /\ LET m == ResizeClose(Menu, innerWidth)
       IN  SetMenu(m) /\ ev' = MenuEv("resizeTimer", m)
    /\ burst' = [burst EXCEPT !.calls = 0, !.fires = @ + 1, !.invoked = t.args]
    /\ UNCHANGED << phase, markup, themeVars, innerWidth, active, fadeVars,
                    timeout, annVars, thrVars, skipVars >>

\* the section observer's callback with the batch entries
SectionsCross(entries) ==
    /\ phase = "ready"
    /\ active' = NavCallback(active, entries)
    /\ ev' = [NoEv("sections") EXCEPT !.entries = entries]
    /\ UNCHANGED << phase, markup, themeVars, menuVars, innerWidth, fadeVars,
                    debounceVars, annVars, thrVars, skipVars >>

\* the fade observer's callback with the batch entries
FadeCross(entries) ==
    /\ phase = "ready"
    /\ fadeTimers' = fadeTimers \cup FadeCallback(entries)
    /\ ev' = [NoEv("fade") EXCEPT !.entries = entries]
    /\ UNCHANGED << phase, markup, themeVars, menuVars, innerWidth, active,
                    style, debounceVars, annVars, thrVars, skipVars >>

\* a due timer of the fade observer reveals its element
FireFade(t) ==
    /\ t \in fadeTimers
    /\ t.remaining = 0
    /\ fadeTimers' = fadeTimers \ {t}
    /\ style' = FadeFire(style, t.el)
    /\ ev' = NoEv("fadeTimer")
    /\ UNCHANGED << phase, markup, themeVars, menuVars, innerWidth, active,
                    debounceVars, annVars, thrVars, skipVars >>

\* a due timer of announceThemeChange removes its announcement
FireAnnounce(t) ==
    /\ t \in announceTimers
    /\ t.remaining = 0
    /\ announceTimers' = announceTimers \ {t}
    /\ LET r == RemoveChild(announced, t.node)
       IN  /\ announced' = r.nodes
           /\ ev' = [NoEv("announceTimer") EXCEPT !.threw = r.threw]
    /\ UNCHANGED << phase, markup, themeVars, menuVars, innerWidth, active,
                    fadeVars, debounceVars, sinceToggle, thrVars, skipVars >>

\* keydown with e.key === 'Tab', e.shiftKey being shift
KeyTab(shift) ==
    /\ phase = "ready"
    /\ skipCount < MaxSkips
    /\ LET r == SkipKeydown(Menu, skipLinks, skipCount, shift)
       IN  /\ SetMenu(r.menu)
           /\ skipLinks' = r.links
           /\ skipCount' = r.count
    /\ ev' = NoEv(IF shift THEN "shiftTab" ELSE "tab")
    /\ UNCHANGED << phase, markup, themeVars, innerWidth, active, fadeVars,
                    debounceVars, annVars, thrVars >>

\* a click on skip link l: its listener, then the document's
SkipClick(l, blurOnRemove) ==
    /\ phase = "ready"
    /\ [id |-> l] \in skipLinks
    /\ LET r == SkipClickHandler(Menu, skipLinks, l, blurOnRemove)
           m == OutsideClick(r.menu, FALSE)
       IN  /\ SetMenu(m)
           /\ skipLinks' = r.links
           /\ ev' = [MenuEv("skipClick", m) EXCEPT !.prevented = TRUE]
    /\ UNCHANGED << phase, markup, themeVars, innerWidth, active, fadeVars,
                    debounceVars, annVars, thrVars, skipCount >>

\* the user moves the focus to element el (Tab, a click): the element that
\* had the focus gets blur
FocusMove(el) ==
    /\ phase = "ready"
    /\ el # focus
    /\ el = "mobileToggle" => markup.mobileToggle
    /\ el = "about" => "about" \in Focusable
    /\ focus' = el
    /\ skipLinks' = AfterFocus(skipLinks, focus, el)
    /\ ev' = NoEv("focusMove")
    /\ UNCHANGED << phase, markup, themeVars, navOpen, ariaExpanded,
                    ariaHidden, innerWidth, active, fadeVars, debounceVars,
                    annVars, thrVars, skipCount >>

\* PortfolioUtils.throttle(func, l)
MakeThrottle(l) ==
    /\ limit = 0
    /\ limit' = l
    /\ ev' = NoEv("throttle")
    /\ UNCHANGED << phase, markup, themeVars, menuVars, innerWidth, active,
                    fadeVars, debounceVars, annVars, inThrottle,
                    throttleTimers, thr, skipVars >>

\* a call of the throttled function with the arguments args
ThrottleCall(args) ==
    /\ limit # 0
    /\ LET r == Throttled(inThrottle, throttleTimers, limit)
       IN  /\ inThrottle' = r.flag
           /\ throttleTimers' = r.timers
           /\ thr' = [first |-> thr.first /\ ~r.invoke,
                      since |-> IF r.invoke THEN 0 ELSE thr.since,
                      args |-> args,
                      accepted |-> r.invoke,
                      invoked |-> IF r.invoke THEN args ELSE thr.invoked,
                      fires |-> IF r.invoke THEN Min(2, thr.fires + 1)
                                            ELSE thr.fires]
    /\ ev' = NoEv("throttleCall")
    /\ UNCHANGED << phase, markup, themeVars, menuVars, innerWidth, active,
                    fadeVars, debounceVars, annVars, limit, skipVars >>

\* a due timer of the throttled function: inThrottle = false
FireThrottle(t) ==
    /\ t \in throttleTimers
    /\ t.remaining = 0
    /\ throttleTimers' = throttleTimers \ {t}
    /\ inThrottle' = FALSE
    /\ ev' = NoEv("throttleTimer")
    /\ UNCHANGED << phase, markup, themeVars, menuVars, innerWidth, active,
                    fadeVars, debounceVars, annVars, limit, thr, skipVars >>

\* TickMs milliseconds pass
Tick ==
    /\ phase = "ready"
    /\ fadeTimers' = Elapse(fadeTimers, TickMs)
    /\ resizeTimers' = Elapse(resizeTimers, TickMs)
    /\ burst' = [burst EXCEPT !.since = Min(ResizeWait, @ + TickMs)]
    /\ announceTimers' = Elapse(announceTimers, TickMs)
    /\ announced' = Age(announced, TickMs)
    /\ sinceToggle' = Min(AnnounceMs, sinceToggle + TickMs)
    /\ throttleTimers' = Elapse(throttleTimers, TickMs)
    /\ thr' = [thr EXCEPT !.since = Min(limit, @ + TickMs)]
    /\ ev' = NoEv("tick")
    /\ UNCHANGED << phase, markup, themeVars, menuVars, innerWidth, active,
                    style, timeout, limit, inThrottle, skipVars >>

\* --------------------------------------------------------- specifications
Clicks ==
    \/ ClickThemeToggle
    \/ ClickMobileToggle
    \/ \E a \in AnchorIds : ClickAnchor(a)
    \/ \E inNav \in BOOLEAN : ClickElsewhere(inNav)

Next ==
    \/ Load
    \/ Clicks
    \/ KeyEscape
    \/ \E w \in Widths : Resize(w)
    \/ \E t \in resizeTimers : FireResize(t)
    \/ \E b \in Batches(SectionIds) : SectionsCross(b)
    \/ \E b \in Batches(FadeIds) : FadeCross(b)
    \/ \E t \in fadeTimers : FireFade(t)
    \/ \E t \in announceTimers : FireAnnounce(t)
    \/ \E l \in Limits : MakeThrottle(l)
    \/ \E args \in 1..MaxBurst : ThrottleCall(args)
    \/ \E t \in throttleTimers : FireThrottle(t)
    \/ \E shift \in BOOLEAN : KeyTab(shift)
    \/ \E l \in 1..MaxSkips : \E b \in BOOLEAN : SkipClick(l, b)
    \/ \E el \in {"body", "mobileToggle", "about"} : FocusMove(el)
    \/ Tick

Spec == Init /\ [][Next]_vars

\* The features share only the menu and the focus, and the full system is too
\* large to enumerate, so each property is checked under the specification
\* of the actions that read or write the variables it is about; every action
\* left out of one leaves those variables UNCHANGED.  The specifications
\* without the theme button start from a first visit.

\* the pointer and keyboard events: theme, menu and scroll router
NextClicks ==
    \/ Load
    \/ Clicks
    \/ KeyEscape

SpecClicks == Init /\ [][NextClicks]_vars

\* the menu with every event that opens or closes it, and the clock
NextMenu ==
    \/ Load
    \/ ClickMobileToggle
    \/ \E a \in AnchorIds : ClickAnchor(a)
    \/ \E inNav \in BOOLEAN : ClickElsewhere(inNav)
    \/ KeyEscape
    \/ \E w \in Widths : Resize(w)
    \/ \E t \in resizeTimers : FireResize(t)
    \/ Tick

SpecMenu == InitFresh /\ [][NextMenu]_vars

\* the section watcher
NextSections ==
    \/ Load
    \/ \E b \in Batches(SectionIds) : SectionsCross(b)

SpecSections == InitFresh /\ [][NextSections]_vars

\* the entrance fades and the clock
NextFade ==
    \/ Load
    \/ \E b \in Batches(FadeIds) : FadeCross(b)
    \/ \E t \in fadeTimers : FireFade(t)
    \/ Tick

SpecFade == InitFresh /\ [][NextFade]_vars

\* the same with the browser's guarantees: time passes and every due
\* timer runs
FairSpecFade ==
    /\ SpecFade
    /\ WF_vars(Tick)
    /\ \A e \in FadeIds : WF_vars(\E t \in fadeTimers : t.el = e /\ FireFade(t))

\* the theme button and the clock
NextTheme ==
    \/ Load
    \/ ClickThemeToggle
    \/ \E t \in announceTimers : FireAnnounce(t)
    \/ Tick

SpecTheme == InitFresh /\ [][NextTheme]_vars

\* the clock runs, and every due timer is run
FairSpecTheme ==
    /\ SpecTheme
    /\ WF_vars(Tick)
    /\ \A n \in 1..MaxToggles :
          WF_vars(\E t \in announceTimers : t.node = n /\ FireAnnounce(t))

\* a throttled function is made and called while the clock runs
NextThrottle ==
    \/ Load
    \/ \E l \in Limits : MakeThrottle(l)
    \/ \E args \in 1..MaxBurst : ThrottleCall(args)
    \/ \E t \in throttleTimers : FireThrottle(t)
    \/ Tick

SpecThrottle == InitFresh /\ [][NextThrottle]_vars

\* the keyboard, the skip link and the menu
NextSkip ==
    \/ Load
    \/ \E shift \in BOOLEAN : KeyTab(shift)
    \/ \E l \in 1..MaxSkips : \E b \in BOOLEAN : SkipClick(l, b)
    \/ \E el \in {"body", "mobileToggle", "about"} : FocusMove(el)
    \/ ClickMobileToggle
    \/ KeyEscape

SpecSkip == InitFresh /\ [][NextSkip]_vars

\* ================================================================ claims
\* ---- C1: in every state reached by toggle clicks, outside clicks, Escape
\* presses and debounced resizes, the navbar has the class open iff the
\* toggle's aria-expanded is "true" iff the navbar's aria-hidden is "false".
\* The code does not keep this: only the toggle's own listener writes
\* aria-hidden, and the resize and anchor closes write neither attribute.
C1_MenuStateAgrees ==
    (phase = "ready" /\ markup.navbar /\ markup.mobileToggle) =>
        /\ navOpen <=> (ariaExpanded = "true")
        /\ navOpen <=> (ariaHidden = "false")

\* ---- C2: for every stored theme among absent, "light" and "dark", the step
\* that runs initTheme leaves data-theme equal to the stored value, "dark"
\* when nothing is stored, and leaves the storage as it was.
C2_InitThemeAppliesStored ==
    [][(phase = "loading" /\ phase' = "ready") =>
          /\ storage = "light" => dataTheme' = "light"
          /\ storage = "dark" => dataTheme' = "dark"
          /\ storage = Null => dataTheme' = "dark"
          /\ storage' = storage]_vars

C2_Witness ==
    phase = "ready" /\ toggles = 0 /\ storage = Null /\ dataTheme = "dark"

\* ---- C3: when initTheme applied "dark", after N toggleTheme calls, with
\* any clicks and key presses in between, data-theme is "dark" for even N
\* and "light" for odd N.
C3_ToggleParity ==
    (phase = "ready" /\ themeAtInit = "dark") =>
        dataTheme = IF toggles % 2 = 0 THEN "dark" ELSE "light"

C3_Witness ==
    themeAtInit = "dark" /\ toggles = 3 /\ dataTheme = "light" /\ navOpen

\* ---- C4: a click on an anchor with href "#" or "#page-top" scrolls to 0;
\* a click on an anchor whose href names an existing element scrolls to the
\* element's offsetTop minus 80 at widths <= 768 and minus 0 above.
C4_ScrollTarget ==
    ev.kind = "anchorClick" =>
        LET a == Anchors[ev.anchor]
        IN  /\ a.href \in {"#", "#page-top"} => ev.scrollTo = << 0 >>
            /\ (a.href \notin {"#", "#page-top"} /\ a.frag \in ElementIds) =>
                  /\ innerWidth <= 768 => ev.scrollTo = << ev.offsetTop - 80 >>
                  /\ innerWidth > 768 => ev.scrollTo = << ev.offsetTop >>

C4_Witness ==
    /\ ev.kind = "anchorClick"
    /\ Anchors[ev.anchor].href = "#projects"
    /\ innerWidth = 768
    /\ ev.offsetTop = 40
    /\ ev.scrollTo = << -40 >>

\* ---- C5: a click on an anchor whose href is neither "#" nor "#page-top"
\* and names no element is not intercepted: the default is not prevented,
\* window.scrollTo is not called, the focus stays, and the anchor's listener
\* leaves the open class as it found it.
C5_MissingTargetUntouched ==
    [][(/\ ev'.kind = "anchorClick"
        /\ Anchors[ev'.anchor].href \notin {"#", "#page-top"}
        /\ Anchors[ev'.anchor].frag \notin ElementIds) =>
          /\ ~ev'.prevented
          /\ ev'.scrollTo = << >>
          /\ focus' = focus
          /\ ev'.routerOpen = navOpen]_vars

\* the dangling anchor, outside the navbar, clicked with the menu open: its
\* own listener left the menu open and the document's listener closed it
C5_Witness ==
    /\ ev.kind = "anchorClick"
    /\ Anchors[ev.anchor].href = "#resume"
    /\ ev.routerOpen
    /\ ~navOpen

\* the nav-link anchors that are active
ActiveNavLinks == { a \in active : Anchors[a].nav }

\* the positions of the intersecting entries of a batch
Crossed(entries) == { i \in DOMAIN entries : entries[i].isIntersecting }

\* ---- C6: in every state reached by section callbacks, whatever their
\* batches, at most one nav-link anchor has the class active.
C6_AtMostOneActive == Cardinality(ActiveNavLinks) <= 1

\* a batch with two intersecting sections has been delivered
C6_Witness ==
    /\ ev.kind = "sections"
    /\ Cardinality(Crossed(ev.entries)) >= 2
    /\ Cardinality(ActiveNavLinks) = 1

C8_FadeRevealsOnce ==
    /\ [][\A e \in FadeIds :
             /\ (phase = "loading" /\ phase' = "ready") =>
                   style'[e] = [opacity |-> "0", transform |-> "translateY(20px)"]
             /\ style[e] = [opacity |-> "1", transform |-> "translateY(0)"] =>
                   style'[e] = style[e]
             /\ style'[e] # style[e] =>
                   \/ phase = "loading"
                   \/ /\ style'[e] = [opacity |-> "1", transform |-> "translateY(0)"]
                      /\ [el |-> e, remaining |-> 0] \in fadeTimers \ fadeTimers'
             /\ ev'.kind = "fade" =>
                   /\ style'[e] = style[e]
                   /\ (\E i \in Crossed(ev'.entries) : ev'.entries[i].target = e) =>
                         \E t \in fadeTimers' : t.el = e
             /\ (ev'.kind = "fadeTimer" /\ fadeTimers' # fadeTimers) =>
                   \A t \in fadeTimers \ fadeTimers' :
                       style'[t.el] = [opacity |-> "1", transform |-> "translateY(0)"]
         ]_vars
    /\ \A e \in FadeIds :
          (\E t \in fadeTimers : t.el = e)
              ~> (style[e] = [opacity |-> "1", transform |-> "translateY(0)"])

\* a revealed element with a timer of a later intersecting entry pending
\* beside a still hidden one
C8_Witness ==
    /\ style["heroText"] = [opacity |-> "1", transform |-> "translateY(0)"]
    /\ style["projectCard"] = [opacity |-> "0", transform |-> "translateY(20px)"]
    /\ \E t \in fadeTimers : t.el = "heroText"

\* ---- C9: the debounced resize handler runs func only from a timer, no
\* sooner than the wait after the last call and with the last call's
\* arguments (call k of a burst passes k, so burst.calls is the last one's); after k >= 1 calls exactly one timer is pending and func has
\* not run since; once that timer has fired func has run exactly once for
\* the burst and nothing is pending.
C9_DebounceTrailingOnce ==
    [][/\ ev'.kind = "resizeTimer" =>
            /\ burst.since >= ResizeWait
            /\ burst'.invoked = burst.calls
            /\ burst'.fires = 1
            /\ resizeTimers' = {}
       /\ burst'.fires <= 1
       /\ burst'.calls >= 1 =>
            /\ burst'.fires = 0
            /\ Cardinality(resizeTimers') = 1
       /\ burst'.fires > burst.fires => ev'.kind = "resizeTimer"
      ]_vars

\* three calls in one burst, then one run of func, with the third's arguments
C9_Witness ==
    burst.fires = 1 /\ burst.invoked = 3 /\ resizeTimers = {}

\* ---- C10 as stated: every close operation (outside click, Escape, resize
\* to desktop, the close of an anchor click) applied to a closed menu leaves
\* the open class, aria-expanded, aria-hidden and the focus as they were.
CloseEvent(e) ==
    \/ e.kind \in {"outsideClick", "escape"}
    \/ e.kind = "resizeTimer" /\ innerWidth > Breakpoint
    \/ e.kind = "anchorClick" /\ Anchors[e.anchor].frag \in ElementIds

C10_CloseIdempotent ==
    [][(~navOpen /\ CloseEvent(ev')) =>
          /\ navOpen' = navOpen
          /\ ariaExpanded' = ariaExpanded
          /\ ariaHidden' = ariaHidden
          /\ focus' = focus]_vars

\* ---- C10 as amended: every close operation applied to a closed menu
\* leaves the open class, aria-expanded and aria-hidden as they were; outside
\* click, Escape and resize to desktop also leave the focus as it was, while
\* an anchor click still moves the focus to its target when the target is
\* focusable.
C10_CloseIdempotentButFocus ==
    [][(~navOpen /\ CloseEvent(ev')) =>
          /\ navOpen' = navOpen
          /\ ariaExpanded' = ariaExpanded
          /\ ariaHidden' = ariaHidden
          /\ ev'.kind # "anchorClick" => focus' = focus
          /\ ev'.kind = "anchorClick" =>
                focus' = IF Anchors[ev'.anchor].frag \in Focusable
                         THEN Anchors[ev'.anchor].frag ELSE focus]_vars

\* Escape pressed on a closed menu: on an open one it would have moved the
\* focus to the toggle
C10_Witness ==
    /\ ev.kind = "escape"
    /\ markup.mobileToggle /\ markup.navbar
    /\ ~navOpen
    /\ focus = "about"

\* ---- C11 as stated: a click on an anchor whose target exists leaves the
\* menu closed (an open class is removed) and the focus on the target.
C11_AnchorClosesAndFocuses ==
    [][(ev'.kind = "anchorClick"
        /\ Anchors[ev'.anchor].href \notin {"#", "#page-top"}
        /\ Anchors[ev'.anchor].frag \in ElementIds) =>
          /\ ~navOpen'
          /\ focus' = Anchors[ev'.anchor].frag]_vars

\* ---- C11 as amended: a click on an anchor whose target exists leaves the
\* menu closed, the anchor's own listener having removed an open class, and
\* calls focus() on the target: the focus is on the target when the target
\* is focusable and stays where it was when it is not.
C11_AnchorClosesFocusIfFocusable ==
    [][(ev'.kind = "anchorClick"
        /\ Anchors[ev'.anchor].href \notin {"#", "#page-top"}
        /\ Anchors[ev'.anchor].frag \in ElementIds) =>
          /\ ~ev'.routerOpen
          /\ ~navOpen'
          /\ Anchors[ev'.anchor].frag \in Focusable =>
                focus' = Anchors[ev'.anchor].frag
          /\ Anchors[ev'.anchor].frag \notin Focusable => focus' = focus]_vars

\* the #about nav link, inside the navbar, clicked with the menu open: the
\* toggle's aria-expanded still says so
C11_Witness ==
    /\ ev.kind = "anchorClick"
    /\ ev.anchor = 2
    /\ ~navOpen
    /\ ariaExpanded = "true"
    /\ focus = "about"

\* ---- C13: Escape on an open menu closes it and puts the focus on the
\* toggle; Escape on a closed menu changes neither the menu nor the focus.
C13_EscapeClosesAndRefocuses ==
    [][ev'.kind = "escape" =>
          /\ navOpen => (~navOpen' /\ focus' = "mobileToggle")
          /\ ~navOpen =>
                /\ ~navOpen'
                /\ ariaExpanded' = ariaExpanded
                /\ ariaHidden' = ariaHidden
                /\ focus' = focus]_vars

\* after Escape on a menu opened while the focus was on #about
C13_Witness ==
    /\ ev.kind = "escape"
    /\ ~navOpen
    /\ ariaHidden = "false"
    /\ ariaExpanded = "false"
    /\ focus = "mobileToggle"

\* ---- C14: a resize event by itself leaves the menu alone; the reaction
\* runs from the timer of the burst's last event, no sooner than 250 ms
\* after it, once per burst: at a width > 768 the menu is closed after it, at
\* a width <= 768 the menu is as it was.
C14_ResizeReaction ==
    [][/\ ev'.kind = "resize" =>
            (navOpen' = navOpen /\ ariaExpanded' = ariaExpanded
             /\ ariaHidden' = ariaHidden /\ focus' = focus)
       /\ ev'.kind = "resizeTimer" =>
            /\ burst.since >= 250
            /\ burst.calls >= 1 /\ burst'.invoked = burst.calls
            /\ burst'.fires = 1 /\ resizeTimers' = {}
            /\ innerWidth > 768 => ~navOpen'
            /\ innerWidth <= 768 => navOpen' = navOpen
            /\ ariaExpanded' = ariaExpanded /\ ariaHidden' = ariaHidden
            /\ focus' = focus
       /\ (navOpen /\ ~navOpen' /\ ev'.kind \in {"resize", "resizeTimer", "tick"}) =>
            (ev'.kind = "resizeTimer" /\ innerWidth > 768)
      ]_vars

\* the reaction of a burst of two has closed an open menu at width 769
C14_Witness ==
    /\ ev.kind = "resizeTimer"
    /\ burst.invoked = 2
    /\ innerWidth = 769
    /\ ~navOpen
    /\ ariaExpanded = "true"

\* ---- C15: in one callback of the fade observer, the timer of each
\* intersecting entry is set to 100 ms times the number of intersecting
\* entries before it in the batch.  The code uses the entry's index in the
\* whole batch, so non-intersecting entries before it add to its delay.
C15_StaggerAmongIntersecting ==
    [][ev'.kind = "fade" =>
          \A i \in Crossed(ev'.entries) :
              [el |-> ev'.entries[i].target,
               remaining |-> 100 * Cardinality({ j \in Crossed(ev'.entries) : j < i })]
                  \in fadeTimers']_vars

\* ---- C19: once toggleTheme has run, the persisted theme equals data-theme
\* and is "light" or "dark"; only a click on the theme button changes the
\* persisted theme or, after init, data-theme; a persisted theme is never
\* deleted.
C19_PersistedMatchesAttribute ==
    [][/\ toggles' >= 1 => (storage' = dataTheme' /\ storage' \in {"light", "dark"})
       /\ (storage' # storage \/ (phase = "ready" /\ dataTheme' # dataTheme)) =>
             (ev'.kind = "themeClick" /\ toggles' = toggles + 1)
       /\ storage # Null => storage' # Null
      ]_vars

\* two toggles from a saved light theme: light is persisted again
C19_Witness ==
    /\ themeAtInit = "light"
    /\ toggles = 2
    /\ storage = "light"
    /\ dataTheme = "light"

\* ---- C12: a missing theme button, menu button or navbar disables only its
\* own feature.  No listener ends in an exception; without the navbar the
\* menu state never changes, without the menu button aria-expanded never
\* changes, the menu never opens and focus never moves to the button,
\* without the theme button the theme stays as initTheme left it; and
\* whatever is missing, a click on the theme button and a click on an anchor
\* do what they do on the full page.
C12_MissingNodeDisablesOnlyItsFeature ==
    [][/\ ~ev'.threw
       /\ ~markup.navbar =>
             /\ navOpen' = navOpen
             /\ ariaExpanded' = ariaExpanded
             /\ ariaHidden' = ariaHidden
             /\ focus' # "mobileToggle"
       /\ ~markup.mobileToggle =>
             /\ ~navOpen'
             /\ ariaExpanded' = ariaExpanded
             /\ ariaHidden' = ariaHidden
             /\ focus' # "mobileToggle"
       /\ (~markup.themeToggle /\ phase = "ready") =>
             /\ dataTheme' = dataTheme
             /\ storage' = storage
             /\ toggles' = toggles
       /\ ev'.kind = "themeClick" =>
             /\ dataTheme' = (IF dataTheme = "dark" THEN "light" ELSE "dark")
             /\ storage' = dataTheme'
       /\ ev'.kind = "load" =>
             dataTheme' = (IF storage = Null THEN "dark" ELSE storage)
       /\ (ev'.kind = "anchorClick"
           /\ Anchors[ev'.anchor].href \notin {"#", "#page-top"}) =>
             IF Anchors[ev'.anchor].frag \in ElementIds
             THEN /\ ev'.prevented
                  /\ ev'.scrollTo =
                       << ev'.offsetTop - (IF innerWidth <= 768 THEN 80 ELSE 0) >>
                  /\ Anchors[ev'.anchor].frag \in Focusable =>
                       focus' = Anchors[ev'.anchor].frag
             ELSE ev'.scrollTo = << >> /\ focus' = focus
      ]_vars

\* on a page without navbar the theme was toggled and then a link to the
\* about section was followed
C12_Witness ==
    /\ ~markup.navbar
    /\ toggles = 1
    /\ ev.kind = "anchorClick"
    /\ ev.anchor = 2
    /\ ev.scrollTo # << >>
    /\ focus = "about"
    /\ ~ev.threw

\* ---- C16: every toggleTheme appends one new announcement node; every
\* announcement node in the document has exactly one pending timer, which
\* removes this node and no other, no sooner than 1000 ms after the node was
\* appended and without an exception; once 1000 ms have passed since the
\* last toggleTheme, the removal of every node still in the document is due,
\* and the document ends up without announcement nodes.
C16_AnnouncementsRemovedOnce ==
    /\ [][/\ ev'.kind \in {"themeClick", "announceTimer"} => ~ev'.threw
          /\ ev'.kind = "themeClick" =>
                \E n \in announced' :
                    /\ \A x \in announced : x.id # n.id
                    /\ n.age = 0
                    /\ announced' = announced \cup {n}
          /\ ev'.kind = "announceTimer" =>
                \E n \in announced :
                    /\ n.age >= AnnounceMs
                    /\ announced' = announced \ {n}
          /\ ev'.kind \notin {"themeClick", "announceTimer"} =>
                { x.id : x \in announced' } = { x.id : x \in announced }
         ]_vars
    /\ [](\A n \in announced :
              /\ Cardinality({ t \in announceTimers : t.node = n.id }) = 1
              /\ Cardinality({ x \in announced : x.id = n.id }) = 1
              /\ sinceToggle >= AnnounceMs =>
                    [node |-> n.id, remaining |-> 0] \in announceTimers)
    /\ [](\A t \in announceTimers : \E n \in announced : n.id = t.node)
    /\ (announced # {}) ~> (announced = {})

\* two toggles within the delay: the first announcement has been removed
\* while the second one, younger than the delay, is still in the document
C16_Witness ==
    /\ ev.kind = "announceTimer"
    /\ ~ev.threw
    /\ toggles >= 2
    /\ Cardinality(announced) = 1
    /\ \E n \in announced : n.age < AnnounceMs

\* ---- C18: the function made by throttle(func, limit) applies func to the
\* arguments of its first call; a call made less than limit after a call
\* that ran func does not run func; func therefore runs at most once in any
\* limit ms; the timer that ends the interval is due exactly limit ms after
\* func ran, and a call made after that timer has run does run func again,
\* with this call's arguments.
C18_ThrottleLeadingEdge ==
    /\ [][ev'.kind = "throttleCall" =>
            /\ thr.first => thr'.accepted
            /\ (~thr.first /\ thr.since < limit) => ~thr'.accepted
            /\ (thr'.accepted /\ ~thr.first) => thr.since >= limit
            /\ (~thr.first /\ thr.since >= limit /\ throttleTimers = {}) =>
                  thr'.accepted
            /\ thr'.invoked = (IF thr'.accepted THEN thr'.args ELSE thr.invoked)
         ]_vars
    /\ [][ev'.kind # "throttleCall" =>
            (thr'.invoked = thr.invoked /\ thr'.fires = thr.fires)]_vars
    /\ [](\A t \in throttleTimers : t.remaining = limit - thr.since)
    /\ [](Cardinality(throttleTimers) <= 1)

\* func ran a second time, with the arguments of the call that came after
\* the interval, a call within the interval having been ignored
C18_Witness ==
    /\ ev.kind = "throttleCall"
    /\ thr.accepted
    /\ thr.fires = 2
    /\ thr.invoked = 3
    /\ limit = 100

\* ---- C17: a skip link is inserted only by a Tab without Shift pressed
\* while the body has the focus, and it then has the focus; after a click
\* on it, or after it lost the focus, it is not in the document; there is
\* never more than one skip link in the document; and no more than one skip
\* link is inserted during the life of the page.  The keydown listener has
\* no memory of an earlier insertion: every Tab from the body inserts a new
\* link.
C17_SkipLinkOneTime ==
    [][/\ skipCount' # skipCount =>
             /\ ev'.kind = "tab"
             /\ focus = "body"
             /\ focus' = "skipLink"
             /\ skipCount' = skipCount + 1
             /\ skipLinks' = skipLinks \cup {[id |-> skipCount']}
       /\ ev'.kind = "skipClick" => skipLinks' = {}
       /\ (focus = "skipLink" /\ focus' # "skipLink") =>
             [id |-> FocusedLink] \notin skipLinks'
       /\ Cardinality(skipLinks') <= 1
       /\ skipCount' <= 1
      ]_vars

\* ---- C20: a click on the skip link removes it from the document without
\* a removeChild of a link that is no longer a child (a NotFoundError),
\* whether or not the about section can take the focus.  With a focusable
\* section, focus() sends blur to the link, the blur listener removes it,
\* and the click listener's removeChild throws.
C20_SkipClickRemovesOnce ==
    [][ev'.kind = "skipClick" =>
          /\ skipLinks' = {}
          /\ ~ev'.threw]_vars

====
